---- MODULE Spec2Model ----
(***************************************************************************)
(* htmx-lsp: the cursor-context classifier (lsp/src/tree_sitter_querier.rs) *)
(* and the message handlers (lsp/src/handle.rs).                            *)
(*                                                                          *)
(* Spec        the classifier: a syntax tree and a trigger point are drawn  *)
(*             in Init, and query_attr_keys_for_completion or               *)
(*             query_attr_values_for_completion is applied to them.         *)
(* TypingSpec  Spec, with text typed after the cursor before the query.     *)
(* HandleSpec  the handlers: handle_request, handle_notification and        *)
(*             handle_other over the text store.                            *)
(***************************************************************************)
EXTENDS Integers, Sequences, FiniteSets, TLC

VARIABLES tree, trigger, base, op, props, result,
          texts, panicked, lastMsg, lastResult, reached, log

cvars == <<tree, trigger, base, op, props, result>>
hvars == <<texts, panicked, lastMsg, lastResult, reached, log>>
vars == <<tree, trigger, base, op, props, result,
          texts, panicked, lastMsg, lastResult, reached, log>>

(***************************************************************************)
(* Bounds                                                                   *)
(***************************************************************************)
\* children of the tag after its tag_name
MaxItems == 2
\* messages the server handles in one run
MaxMsgs == 3

(***************************************************************************)
(* Source text: a text is a sequence of characters                          *)
(***************************************************************************)
T_hx == <<"h", "x", "-">>
T_hxget == <<"h", "x", "-", "g", "e", "t">>
T_class == <<"c", "l", "a", "s", "s">>
T_foo == <<"/", "f">>
T_eq == <<"=">>
T_quote == <<"\"">>
T_tag == <<"<", "d", "i", "v">>
T_empty == <<>>

\* mutant: the separator constant is the quote character
SEPARATOR_Quote == T_quote

KEY_VALUE_SEPARATOR == T_eq

\* the literal of (#eq? @quoted_attr_value "\"\"")
EMPTY_QUOTES == <<"\"", "\"">>

\* regex "hx-.*" of (#match? @attr_name "hx-.*"): an unanchored search
HxMatch(t) ==
    \E i \in 1..(Len(t) - 2) : t[i] = "h" /\ t[i + 1] = "x" /\ t[i + 2] = "-"

(***************************************************************************)
(* tree_sitter::Point and its derived ordering (row first, then column)     *)
(***************************************************************************)
Point(r, c) == [row |-> r, column |-> c]

PointLeq(a, b) == a.row < b.row \/ (a.row = b.row /\ a.column <= b.column)

\* mutant: a strict comparison
PointGt(a, b) == ~PointLeq(a, b)

PointGeq(a, b) == PointLeq(b, a)

(***************************************************************************)
(* The syntax tree handed to a query: one tag node (a start tag, or an      *)
(* ERROR node when the tag did not parse) whose children are a tag_name     *)
(* and then the items.  Items 1..brk lie on row 0 after "<div", the others  *)
(* on row 1; consecutive children of a row are one space apart.             *)
(***************************************************************************)
Attr(n, vk, v) == [kind |-> "attribute", name |-> n, vkind |-> vk, value |-> v]
Err(t) == [kind |-> "ERROR", name |-> t, vkind |-> "none", value |-> T_empty]
Name(n) == [kind |-> "attribute_name", name |-> n, vkind |-> "none", value |-> T_empty]

AttrItems ==
    { Attr(T_hx, "none", T_empty), Attr(T_hxget, "none", T_empty),
      Attr(T_hxget, "quoted", T_empty), Attr(T_hxget, "quoted", T_foo),
      Attr(T_hxget, "unquoted", T_foo), Attr(T_class, "quoted", T_empty) }

ErrItems == { Err(T_eq), Err(T_quote) }

NameItems == { Name(T_hxget), Name(T_class) }

ItemsOf(kind) ==
    IF kind = "ERROR" THEN AttrItems \cup ErrItems \cup NameItems
    ELSE AttrItems \cup ErrItems

\* the text an item spans
ItemText(it) ==
    IF it.kind = "attribute" /\ it.vkind = "quoted"
        THEN it.name \o T_eq \o T_quote \o it.value \o T_quote
    ELSE IF it.kind = "attribute" /\ it.vkind = "unquoted"
        THEN it.name \o T_eq \o it.value
    ELSE it.name

Width(it) == Len(ItemText(it))

RowOf(t, k) == IF k <= t.brk THEN 0 ELSE 1

RECURSIVE ColOf(_, _)
ColOf(t, k) ==
    IF k = t.brk + 1 THEN 0
    ELSE IF k = 1 THEN Len(T_tag) + 1
    ELSE ColOf(t, k - 1) + Width(t.items[k - 1]) + 1

ItemStart(t, k) == Point(RowOf(t, k), ColOf(t, k))

ItemEnd(t, k) == Point(RowOf(t, k), ColOf(t, k) + Width(t.items[k]))

TreeStart == Point(0, 0)

TreeEnd(t) ==
    IF Len(t.items) = 0 THEN Point(0, Len(T_tag))
    ELSE ItemEnd(t, Len(t.items))

RECURSIVE TextUpTo(_, _)
TextUpTo(t, k) ==
    IF k = 0 THEN T_tag
    ELSE TextUpTo(t, k - 1)
         \o (IF k = t.brk + 1 THEN <<"\n">> ELSE <<" ">>)
         \o ItemText(t.items[k])

TreeText(t) == TextUpTo(t, Len(t.items))

\* the nodes of an attribute item
NameEnd(t, k) == Point(RowOf(t, k), ColOf(t, k) + Len(t.items[k].name))

\* quoted_attribute_value: from the opening quote to the end of the attribute
QuotedStart(t, k) == Point(RowOf(t, k), ColOf(t, k) + Len(t.items[k].name) + 1)

QuotedText(it) == T_quote \o it.value \o T_quote

\* attribute_value inside the quotes; the grammar has none for ""
InnerStart(t, k) == Point(RowOf(t, k), ColOf(t, k) + Len(t.items[k].name) + 2)

InnerEnd(t, k) == Point(RowOf(t, k), ColOf(t, k) + Width(t.items[k]) - 1)

Trees ==
    UNION { { [kind |-> kd, items |-> its, brk |-> b] :
                its \in [1..n -> ItemsOf(kd)],
                b \in { c \in {n - 1, n} : c >= 0 } } :
            kd \in {"start_tag", "ERROR"}, n \in 0..MaxItems }

\* the cursor positions of the text
Triggers(t) ==
    { Point(0, c) : c \in 0..(IF t.brk = 0 THEN Len(T_tag)
                              ELSE ItemEnd(t, t.brk).column) }
    \cup (IF t.brk < Len(t.items)
          THEN { Point(1, c) : c \in 0..TreeEnd(t).column }
          ELSE {})

(***************************************************************************)
(* Captures and matches.  A capture is a name bound to a node; the code     *)
(* reads the node's start, its text and its end.  A match is the set of     *)
(* captures of one alternative of the query.                                *)
(***************************************************************************)
Capture(n, v, s, e) == [name |-> n, value |-> v, start |-> s, end |-> e]

Indices(t) == 1..Len(t.items)

IsAttr(t, i) == t.items[i].kind = "attribute"

IsErr(t, i) == t.items[i].kind = "ERROR"

AttrNameCap(t, i) ==
    Capture("attr_name", t.items[i].name, ItemStart(t, i), NameEnd(t, i))

WholeItemCap(n, t, i) ==
    Capture(n, ItemText(t.items[i]), ItemStart(t, i), ItemEnd(t, i))

\* (_ (tag_name) (_)* (attribute (attribute_name) @attr_name) @complete_match
\*    (#eq? @attr_name @complete_match))
BareNameMatches(t) ==
    { { AttrNameCap(t, i), WholeItemCap("complete_match", t, i) } :
        i \in { j \in Indices(t) :
                  IsAttr(t, j) /\ t.items[j].name = ItemText(t.items[j]) } }

\* (_ (tag_name) (attribute (attribute_name)) (ERROR) @error_char)
DanglingSeparatorMatches(t) ==
    { { WholeItemCap("error_char", t, j) } :
        j \in { k \in Indices(t) :
                  IsErr(t, k) /\ \E i \in 1..(k - 1) : IsAttr(t, i) } }

KeyMatches(t) == BareNameMatches(t) \cup DanglingSeparatorMatches(t)

\* (ERROR (tag_name) (attribute_name) @attr_name (_)) @open_quote_err
OpenQuoteErrMatches(t) ==
    IF t.kind # "ERROR" THEN {}
    ELSE { { Capture("attr_name", t.items[i].name, ItemStart(t, i), ItemEnd(t, i)),
             Capture("open_quote_err", TreeText(t), TreeStart, TreeEnd(t)) } :
           i \in { j \in Indices(t) :
                     t.items[j].kind = "attribute_name" /\ j < Len(t.items) } }

\* (_ (tag_name) (attribute (attribute_name) @attr_name (_)) @last_item
\*    (ERROR) @error_char)
TrailingErrorMatches(t) ==
    { { AttrNameCap(t, p[1]), WholeItemCap("last_item", t, p[1]),
        WholeItemCap("error_char", t, p[2]) } :
        p \in { q \in Indices(t) \X Indices(t) :
                  /\ q[1] < q[2]
                  /\ IsAttr(t, q[1]) /\ t.items[q[1]].vkind # "none"
                  /\ IsErr(t, q[2]) } }

\* (_ (tag_name) (attribute (attribute_name) @attr_name
\*      (quoted_attribute_value) @quoted_attr_value
\*      (#eq? @quoted_attr_value "\"\"")) @empty_attribute)
EmptyValueMatches(t) ==
    { { AttrNameCap(t, i),
        Capture("quoted_attr_value", QuotedText(t.items[i]),
                QuotedStart(t, i), ItemEnd(t, i)),
        WholeItemCap("empty_attribute", t, i) } :
        i \in { j \in Indices(t) :
                  /\ IsAttr(t, j) /\ t.items[j].vkind = "quoted"
                  /\ QuotedText(t.items[j]) = EMPTY_QUOTES } }

\* (_ (tag_name) (attribute (attribute_name) @attr_name
\*      (quoted_attribute_value (attribute_value) @attr_value))
\*    @non_empty_attribute)
NonEmptyValueMatches(t) ==
    { { AttrNameCap(t, i),
        Capture("attr_value", t.items[i].value, InnerStart(t, i), InnerEnd(t, i)),
        WholeItemCap("non_empty_attribute", t, i) } :
        i \in { j \in Indices(t) :
                  /\ IsAttr(t, j) /\ t.items[j].vkind = "quoted"
                  /\ t.items[j].value # T_empty } }

\* (#match? @attr_name "hx-.*") holds of a match
NameFilter(m) == \A c \in m : c.name = "attr_name" => HxMatch(c.value)

ValueMatches(t) ==
    { m \in OpenQuoteErrMatches(t) \cup TrailingErrorMatches(t)
            \cup EmptyValueMatches(t) \cup NonEmptyValueMatches(t) :
        NameFilter(m) }

(***************************************************************************)
(* query_props: the matches are visited in the order the query cursor       *)
(* yields them, the captures that start at or before the trigger are kept,  *)
(* and a later capture replaces an earlier one of the same name.            *)
(***************************************************************************)
CaptureDetails(c) == [value |-> c.value, end |-> c.end]

EmptyProps == [k \in {} |-> 0]

\* mutant: the rows are ignored
Retained_ColumnOnly(c, trig) == c.start.column <= trig.column

\* capture.node.start_position() <= trigger_point
Retained(c, trig) == PointLeq(c.start, trig)

InsertMatch(p, m, trig) ==
    LET kept == { c \in m : Retained(c, trig) }
        keys == { c.name : c \in kept }
    IN  [k \in (DOMAIN p) \cup keys |->
            IF k \in keys THEN CaptureDetails(CHOOSE c \in kept : c.name = k)
            ELSE p[k]]

RECURSIVE FoldMatches(_, _, _)
FoldMatches(p, ms, trig) ==
    IF ms = <<>> THEN p
    ELSE FoldMatches(InsertMatch(p, Head(ms), trig), Tail(ms), trig)

query_props(ms, trig) == FoldMatches(EmptyProps, ms, trig)

\* the orders in which a cursor may yield a set of matches
Orders(S) ==
    { s \in [1..Cardinality(S) -> S] : \A m \in S : \E i \in DOMAIN s : s[i] = m }

(***************************************************************************)
(* Position, the classification result                                      *)
(***************************************************************************)
None == [type |-> "None"]

AttributeName(n) == [type |-> "AttributeName", value |-> n]

AttributeValue(n, v) == [type |-> "AttributeValue", name |-> n, value |-> v]

Has(p, k) == k \in DOMAIN p

\* mutant: error_char is not consulted
KeysResult_NoErrorChar(p) ==
    IF ~Has(p, "attr_name") THEN None
    ELSE AttributeName(p["attr_name"].value)

\* the resolution of query_attr_keys_for_completion
KeysResult(p) ==
    IF ~Has(p, "attr_name") THEN None
    ELSE IF Has(p, "error_char") THEN None
    ELSE AttributeName(p["attr_name"].value)

\* mutant: the separator is consulted before open_quote_err and empty_attribute
ValuesResult_SeparatorFirst(p, trig) ==
    IF ~Has(p, "attr_name") THEN None
    ELSE IF Has(p, "error_char") /\ p["error_char"].value = KEY_VALUE_SEPARATOR
        THEN None
    ELSE IF Has(p, "open_quote_err") \/ Has(p, "empty_attribute")
        THEN AttributeValue(p["attr_name"].value, T_empty)
    ELSE IF Has(p, "non_empty_attribute")
            /\ PointGeq(trig, p["non_empty_attribute"].end)
        THEN None
    ELSE AttributeValue(p["attr_name"].value, T_empty)

\* mutant: nothing is offered unless one of the value shapes is retained
ValuesResult_DefaultNone(p, trig) ==
    IF ~Has(p, "attr_name") THEN None
    ELSE IF Has(p, "open_quote_err") \/ Has(p, "empty_attribute")
        THEN AttributeValue(p["attr_name"].value, T_empty)
    ELSE IF Has(p, "error_char") /\ p["error_char"].value = KEY_VALUE_SEPARATOR
        THEN None
    ELSE IF Has(p, "non_empty_attribute")
        THEN IF PointGeq(trig, p["non_empty_attribute"].end) THEN None
             ELSE AttributeValue(p["attr_name"].value, T_empty)
    ELSE None

\* the resolution of query_attr_values_for_completion
ValuesResult(p, trig) ==
    IF ~Has(p, "attr_name") THEN None
    ELSE IF Has(p, "open_quote_err") \/ Has(p, "empty_attribute")
        THEN AttributeValue(p["attr_name"].value, T_empty)
    ELSE IF Has(p, "error_char") /\ p["error_char"].value = KEY_VALUE_SEPARATOR
        THEN None
    ELSE IF Has(p, "non_empty_attribute")
            /\ PointGeq(trig, p["non_empty_attribute"].end)
        THEN None
    ELSE AttributeValue(p["attr_name"].value, T_empty)

\* Option<HtmxResult>: None, or AttributeCompletion with the request's id
NoResult == [type |-> "None"]

AttributeCompletion(id) == [type |-> "AttributeCompletion", id |-> id]

(***************************************************************************)
(* The classifier as a state machine                                        *)
(***************************************************************************)
HandleIdle ==
    /\ texts = [u \in {} |-> T_empty]
    /\ panicked = FALSE
    /\ lastMsg = [kind |-> "none"]
    /\ lastResult = NoResult
    /\ reached = FALSE
    /\ log = <<>>

Init ==
    /\ tree \in Trees
    /\ trigger \in Triggers(tree)
    /\ base = tree
    /\ op = "idle"
    /\ props = EmptyProps
    /\ result = None
    /\ HandleIdle

query_attr_keys_for_completion ==
    /\ op = "idle"
    /\ \E ms \in Orders(KeyMatches(tree)) :
          /\ props' = query_props(ms, trigger)
          /\ result' = KeysResult(props')
    /\ op' = "keys"
    /\ UNCHANGED <<tree, trigger, base, hvars>>

query_attr_values_for_completion ==
    /\ op = "idle"
    /\ \E ms \in Orders(ValueMatches(tree)) :
          /\ props' = query_props(ms, trigger)
          /\ result' = ValuesResult(props', trigger)
    /\ op' = "values"
    /\ UNCHANGED <<tree, trigger, base, hvars>>

Next == query_attr_keys_for_completion \/ query_attr_values_for_completion

Spec == Init /\ [][Next]_vars

(***************************************************************************)
(* Text typed after the cursor: a character appended to the last child      *)
(* when the child ends at or after the trigger, or a new ERROR child after  *)
(* the last one.  Every node that starts at or before the trigger keeps     *)
(* its start and the text it has before the trigger.                        *)
(***************************************************************************)
TypedChars == {"g"}

WithLast(t, it) ==
    [t EXCEPT !.items = [i \in DOMAIN t.items |->
                            IF i = Len(t.items) THEN it ELSE t.items[i]]]

ExtendLast(t, trig) ==
    LET n == Len(t.items)
        it == t.items[n]
    IN  IF n = 0 THEN {}
        ELSE IF it.vkind = "quoted"
            THEN IF PointLeq(trig, InnerEnd(t, n)) /\ PointLeq(InnerStart(t, n), trig)
                 THEN { WithLast(t, [it EXCEPT !.value = it.value \o <<ch>>]) :
                          ch \in TypedChars }
                 ELSE {}
        ELSE IF ~PointLeq(trig, ItemEnd(t, n)) THEN {}
        ELSE IF it.vkind = "unquoted"
            THEN { WithLast(t, [it EXCEPT !.value = it.value \o <<ch>>]) :
                     ch \in TypedChars }
        ELSE { WithLast(t, [it EXCEPT !.name = it.name \o <<ch>>]) :
                 ch \in TypedChars }

AppendError(t, trig) ==
    IF PointLeq(trig, TreeEnd(t)) /\ t.brk = Len(t.items)
    THEN { [t EXCEPT !.items = Append(t.items, e), !.brk = t.brk + 1] :
             e \in ErrItems }
    ELSE {}

TypeInLastChild ==
    /\ op = "idle"
    /\ base = tree
    /\ tree' \in ExtendLast(tree, trigger)
    /\ UNCHANGED <<trigger, base, op, props, result, hvars>>

TypeNewChild ==
    /\ op = "idle"
    /\ base = tree
    /\ tree' \in AppendError(tree, trigger)
    /\ UNCHANGED <<trigger, base, op, props, result, hvars>>

TypingNext == Next \/ TypeInLastChild \/ TypeNewChild

TypingSpec == Init /\ [][TypingNext]_vars

\* what each operation can return for a tree and a trigger
KeysResults(t, trig) ==
    { KeysResult(query_props(ms, trig)) : ms \in Orders(KeyMatches(t)) }

ValuesResults(t, trig) ==
    { ValuesResult(query_props(ms, trig), trig) : ms \in Orders(ValueMatches(t)) }

(***************************************************************************)
(* The handlers (handle.rs).  A message is a notification, a request or     *)
(* anything else; params that do not deserialize have the shape             *)
(* "malformed".  log is the history of the messages handled.                *)
(***************************************************************************)
Uris == {"u1", "u2"}

T_a == <<"a">>
T_b == <<"b">>

ChangeLists == { <<>>, <<T_a>>, <<T_b>>, <<T_a, T_b>>, <<T_b, T_a>> }

Malformed == [shape |-> "malformed"]

TextDocumentChanges ==
    { [shape |-> "changes", uri |-> u, contentChanges |-> cs] :
        u \in Uris, cs \in ChangeLists }

TriggerKinds == {"INVOKED", "TRIGGER_CHARACTER", "TRIGGER_FOR_INCOMPLETE_COMPLETIONS"}

CompletionParams ==
    { [shape |-> "completion", context |-> c] : c \in {"none"} \cup TriggerKinds }

Notifications ==
    { [kind |-> "notification", method |-> "textDocument/didChange", params |-> p] :
        p \in {Malformed} \cup TextDocumentChanges }
    \cup { [kind |-> "notification", method |-> "initialized", params |-> Malformed] }

Requests ==
    { [kind |-> "request", method |-> "textDocument/completion", params |-> p] :
        p \in {Malformed} \cup CompletionParams }
    \cup { [kind |-> "request", method |-> "shutdown", params |-> Malformed] }

Others == { [kind |-> "response", method |-> "", params |-> Malformed] }

\* hx_completion(text_document_position): the candidates, or nothing
HxCompletionOutcomes == {"Some", "None"}

\* mutant: the last content change is applied
LastChange(cs) == cs[Len(cs)]

\* content_changes[0]
FirstChange(cs) == cs[1]

\* texts.insert(uri, text)
TextsInsert(store, uri, text) ==
    [u \in (DOMAIN store) \cup {uri} |-> IF u = uri THEN text ELSE store[u]]

handle_didChange(noti) ==
    IF noti.params.shape # "changes"
        THEN /\ UNCHANGED <<texts, panicked>>
             /\ lastResult' = NoResult
    ELSE IF Len(noti.params.contentChanges) = 0
        \* index out of bounds: the handler panics
        THEN /\ panicked' = TRUE
             /\ lastResult' = NoResult
             /\ UNCHANGED texts
    ELSE /\ texts' = TextsInsert(texts, noti.params.uri,
                                 FirstChange(noti.params.contentChanges))
         /\ lastResult' = NoResult
         /\ UNCHANGED panicked

ReachesClassifier(kind) == kind \in {"TRIGGER_CHARACTER", "INVOKED"}

handle_completion(req, id) ==
    IF req.params.shape # "completion"
        THEN /\ lastResult' = NoResult
             /\ reached' = FALSE
    ELSE IF ReachesClassifier(req.params.context)
        THEN /\ reached' = TRUE
             /\ \E o \in HxCompletionOutcomes :
                   lastResult' = IF o = "Some" THEN AttributeCompletion(id)
                                 ELSE NoResult
    ELSE /\ lastResult' = NoResult
         /\ reached' = FALSE

CanHandle == ~panicked /\ Len(log) < MaxMsgs

handle_notification ==
    /\ CanHandle
    /\ \E noti \in Notifications :
          /\ lastMsg' = noti
          /\ log' = Append(log, noti)
          /\ IF noti.method = "textDocument/didChange"
                THEN handle_didChange(noti)
                ELSE /\ lastResult' = NoResult
                     /\ UNCHANGED <<texts, panicked>>
    /\ reached' = FALSE
    /\ UNCHANGED cvars

handle_request ==
    /\ CanHandle
    /\ \E req \in Requests :
          /\ lastMsg' = req
          /\ log' = Append(log, req)
          /\ IF req.method = "textDocument/completion"
                THEN handle_completion(req, Len(log) + 1)
                ELSE /\ lastResult' = NoResult
                     /\ reached' = FALSE
    /\ UNCHANGED <<texts, panicked>>
    /\ UNCHANGED cvars

handle_other ==
    /\ CanHandle
    /\ \E msg \in Others :
          /\ lastMsg' = msg
          /\ log' = Append(log, msg)
    /\ lastResult' = NoResult
    /\ reached' = FALSE
    /\ UNCHANGED <<texts, panicked>>
    /\ UNCHANGED cvars

HandleInit ==
    /\ tree = [kind |-> "start_tag", items |-> <<>>, brk |-> 0]
    /\ trigger = Point(0, 0)
    /\ base = tree
    /\ op = "idle"
    /\ props = EmptyProps
    /\ result = None
    /\ HandleIdle

HandleNext == handle_notification \/ handle_request \/ handle_other

HandleSpec == HandleInit /\ [][HandleNext]_vars

(***************************************************************************)
(* Properties of the classifier                                             *)
(***************************************************************************)
\* error_char is retained and its text is "="
Separator(p) == Has(p, "error_char") /\ p["error_char"].value = T_eq

OpenOrEmpty(p) == Has(p, "open_quote_err") \/ Has(p, "empty_attribute")

\* C1 as stated: whenever open_quote_err or empty_attribute is retained, the
\* value classification is AttributeValueContext(attr_name.text, "").
C1_AsStated ==
    (op = "values" /\ OpenOrEmpty(props))
        => /\ Has(props, "attr_name")
           /\ result = AttributeValue(props["attr_name"].value, T_empty)

\* C1 amended: whenever open_quote_err or empty_attribute is retained, the
\* value classification is AttributeValueContext(attr_name.text, "") if
\* attr_name is retained too and NoCompletion if it is not; a retained
\* separator error_char or a non_empty_attribute that ends at or before the
\* trigger does not change this.
C1_OpenOrEmptyWins ==
    (op = "values" /\ OpenOrEmpty(props))
        => IF Has(props, "attr_name")
           THEN result = AttributeValue(props["attr_name"].value, T_empty)
           ELSE result = None

C1_Witness ==
    /\ op = "values"
    /\ Has(props, "empty_attribute")
    /\ Separator(props)
    /\ result = AttributeValue(T_hxget, T_empty)

\* C2 as stated: when none of open_quote_err, empty_attribute and
\* non_empty_attribute is retained and error_char is not the separator, the
\* value classification is NoCompletion.
C2_AsStated ==
    (/\ op = "values"
     /\ ~OpenOrEmpty(props)
     /\ ~Has(props, "non_empty_attribute")
     /\ ~Separator(props))
        => result = None

\* C2 amended: when none of open_quote_err, empty_attribute and
\* non_empty_attribute is retained and error_char is not the separator, the
\* value classification is NoCompletion exactly when attr_name is not retained;
\* when attr_name is retained (with last_item alone, or with an error_char
\* other than "=") it is AttributeValueContext(attr_name.text, "").
C2_FallThrough ==
    (/\ op = "values"
     /\ ~OpenOrEmpty(props)
     /\ ~Has(props, "non_empty_attribute")
     /\ ~Separator(props))
        => IF Has(props, "attr_name")
           THEN result = AttributeValue(props["attr_name"].value, T_empty)
           ELSE result = None

C2_Witness ==
    /\ op = "values"
    /\ DOMAIN props = {"attr_name", "last_item"}
    /\ result = AttributeValue(T_hxget, T_empty)

\* C3: with neither open_quote_err nor empty_attribute retained, error_char
\* not the separator and non_empty_attribute retained, the value classification
\* is NoCompletion if trigger >= the captured end of non_empty_attribute and
\* otherwise AttributeValueContext(attr_name.text, "") with the empty prefix.
C3_NonEmptyAttribute ==
    (/\ op = "values"
     /\ ~OpenOrEmpty(props)
     /\ ~Separator(props)
     /\ Has(props, "non_empty_attribute"))
        => /\ Has(props, "attr_name")
           /\ result = IF PointLeq(props["non_empty_attribute"].end, trigger)
                       THEN None
                       ELSE AttributeValue(props["attr_name"].value, T_empty)

C3_Witness ==
    /\ op = "values"
    /\ ~OpenOrEmpty(props)
    /\ Has(props, "non_empty_attribute")
    /\ Has(props, "attr_value")
    /\ props["attr_value"].value = T_foo
    /\ ~PointLeq(props["non_empty_attribute"].end, trigger)
    /\ result = AttributeValue(T_hxget, T_empty)

\* <div hx-|> and <div hx-get =|>
BareNameTree ==
    [kind |-> "start_tag", items |-> <<Attr(T_hx, "none", T_empty)>>, brk |-> 1]

DanglingSeparatorTree ==
    [kind |-> "start_tag",
     items |-> <<Attr(T_hxget, "none", T_empty), Err(T_eq)>>, brk |-> 2]

\* C4: the name classification is NoCompletion if error_char is retained,
\* otherwise AttributeNameContext(attr_name.text) if attr_name is retained,
\* otherwise NoCompletion; <div hx-|> gives AttributeNameContext("hx-") and a
\* dangling separator gives NoCompletion.
C4_NameResolution ==
    op = "keys"
        => /\ result = IF Has(props, "error_char") THEN None
                       ELSE IF Has(props, "attr_name")
                           THEN AttributeName(props["attr_name"].value)
                       ELSE None
           /\ (tree = BareNameTree /\ trigger = TreeEnd(tree))
                 => result = AttributeName(T_hx)
           /\ (tree = DanglingSeparatorTree /\ trigger = TreeEnd(tree))
                 => result = None

C4_Witness ==
    /\ op = "keys"
    /\ tree = DanglingSeparatorTree
    /\ trigger = TreeEnd(tree)
    /\ Has(props, "attr_name")
    /\ Has(props, "error_char")
    /\ result = None

InsideValue(t, i, trig) ==
    /\ IsAttr(t, i)
    /\ t.items[i].vkind = "quoted"
    /\ PointLeq(InnerStart(t, i), trig)
    /\ PointLeq(trig, InnerEnd(t, i))

\* C6: with the trigger inside the value of an attribute whose name does not
\* match the naming convention, the value classification is NoCompletion,
\* whatever other attributes the tag holds; and the attribute name of every
\* AttributeValueContext matches the convention.
C6_NameFilter ==
    op = "values"
        => /\ (\E i \in Indices(tree) :
                  InsideValue(tree, i, trigger) /\ ~HxMatch(tree.items[i].name))
                 => result = None
           /\ result.type = "AttributeValue" => HxMatch(result.name)

Matches(o, t) == IF o = "keys" THEN KeyMatches(t) ELSE ValueMatches(t)

CapturesNamed(o, t, k) == { c \in UNION Matches(o, t) : c.name = k }

\* C7: every capture of the capture set belongs to a node that starts at or
\* before the trigger, also when its match has other captures that start
\* after it; so the name and prefix returned are the text of such a capture.
C7_RightOfCursorExclusion ==
    op # "idle"
        => /\ \A k \in DOMAIN props :
                /\ \E c \in CapturesNamed(op, tree, k) :
                      CaptureDetails(c) = props[k]
                /\ \A c \in CapturesNamed(op, tree, k) :
                      CaptureDetails(c) = props[k] => PointLeq(c.start, trigger)
           /\ result.type = "AttributeName"
                 => \E c \in CapturesNamed(op, tree, "attr_name") :
                       c.value = result.value /\ PointLeq(c.start, trigger)
           /\ result.type = "AttributeValue"
                 => \E c \in CapturesNamed(op, tree, "attr_name") :
                       c.value = result.name /\ PointLeq(c.start, trigger)

C7_Witness ==
    /\ op = "values"
    /\ Has(props, "non_empty_attribute")
    /\ ~Has(props, "attr_value")
    /\ result.type = "AttributeValue"
    /\ \E c \in CapturesNamed(op, tree, "attr_value") : ~PointLeq(c.start, trigger)

\* C8: after text is typed after the cursor, each classification returns what
\* it returns for the text before the typing.
C8_TypedAfterCursor ==
    /\ op = "keys" => result \in KeysResults(base, trigger)
    /\ op = "values" => result \in ValuesResults(base, trigger)

(***************************************************************************)
(* Properties of the handlers                                               *)
(***************************************************************************)
WellFormedChange(m) ==
    /\ m.kind = "notification"
    /\ m.method = "textDocument/didChange"
    /\ m.params.shape = "changes"
    /\ Len(m.params.contentChanges) >= 1

\* malformed params, an unrecognised method, or a completion request whose
\* trigger kind is neither Invoked nor TriggerCharacter
NonConforming(m) ==
    \/ m.kind = "response"
    \/ m.kind = "notification" /\ ~WellFormedChange(m)
    \/ /\ m.kind = "request"
       /\ \/ m.method # "textDocument/completion"
          \/ m.params.shape # "completion"
          \/ m.params.context \notin {"INVOKED", "TRIGGER_CHARACTER"}

\* C9: a non-conforming message gives no result, does not reach the
\* classifier, leaves the registry unchanged and does not end the session.
C9_Absorbed ==
    [][NonConforming(lastMsg')
          => /\ lastResult' = NoResult
             /\ ~reached'
             /\ texts' = texts
             /\ ~panicked']_vars

ChangesFor(d) ==
    { i \in DOMAIN log : WellFormedChange(log[i]) /\ log[i].params.uri = d }

Latest(S) == CHOOSE i \in S : \A j \in S : j <= i

\* C10: the registry holds for every document identifier the text of the
\* first content-change block of the latest well-formed change notification
\* for it (no entry when there was none), and a notification gives no result.
C10_Registry ==
    /\ \A d \in Uris :
          IF ChangesFor(d) = {} THEN d \notin DOMAIN texts
          ELSE /\ d \in DOMAIN texts
               /\ texts[d] = log[Latest(ChangesFor(d))].params.contentChanges[1]
    /\ lastMsg.kind = "notification" => lastResult = NoResult

C10_Witness ==
    /\ Len(log) = 3
    /\ WellFormedChange(log[1]) /\ WellFormedChange(log[2]) /\ WellFormedChange(log[3])
    /\ log[1].params.uri = "u1" /\ log[2].params.uri = "u2"
    /\ log[3].params.uri = "u1"
    /\ Len(log[3].params.contentChanges) = 2
    /\ texts["u1"] = T_b /\ texts["u2"] = T_a
    /\ log[1].params.contentChanges = <<T_a>>

====
